---- MODULE Spec2Model ----
(***************************************************************************)
(* Model of server/server-py/main.py: the one-time token store             *)
(* (valid_tokens, cleanup_tokens, POST /api/auth) and the /ws connection   *)
(* handler (websocket_endpoint) with its receive_from_client task, the     *)
(* run_session driver raced against SESSION_TIME_LIMIT, and the teardown.  *)
(* Every action is one stretch of handler code between two awaits of the   *)
(* single-threaded event loop.                                             *)
(***************************************************************************)
EXTENDS Integers, Sequences, FiniteSets, TLC

\* ---------------------------------------------------------------- bounds
NConn == 2          \* connection attempts on /ws
MaxTokens == 2      \* calls of POST /api/auth
MaxSessions == 1    \* connections taken past the setup message
MaxFrames == 1      \* frames one receive_from_client task reads
MaxTime == 270      \* the clock stops here
TickStep == 90      \* largest advance of the clock in one step

\* ------------------------------------------------------ program constants
TOKEN_EXPIRY_SECONDS == 30
SESSION_TIME_LIMIT == 180

Conns == 1..NConn

\* uuid.uuid4() of the n-th call of authenticate(): fresh on every call
Uuid4(n) == n

\* the token query parameter of a /ws request: absent (None) or a string;
\* strings are "" (value 0), an issued uuid, or a uuid never issued (-1)
NoToken == [given |-> FALSE, value |-> 0]
TokenParams(issuedCount) ==
    {NoToken} \cup [given : {TRUE}, value : {-1, 0} \cup 1..issuedCount]

\* Python truthiness of the Optional[str] token
TokenFalsy(tok) == ~tok.given \/ tok.value = 0

\* close frames of websocket.close(code, reason); Starlette sends reason or ""
UnauthorizedClose == [code |-> 4003, reason |-> "Unauthorized"]
TimeLimitClose == [code |-> 1000, reason |-> "Session time limit reached"]
DefaultClose == [code |-> 1000, reason |-> ""]

Min(S) == CHOOSE x \in S : \A y \in S : x <= y

VARIABLES
    now,            \* time.time() / the event loop's clock
    valid_tokens,   \* Token -> Timestamp
    issued,         \* how many tokens authenticate() has issued
    conn            \* per connection: the handler's locals and the socket

vars == <<now, valid_tokens, issued, conn>>

\* ------------------------------------------------- Python values (json)
\* a value json.loads returns, as far as the handler looks into it:
\* its kind, a dict's items, a str both whole and as characters
PyNone == [kind |-> "none", str |-> "", chars |-> <<>>]
PyStr(s, cs) == [kind |-> "str", str |-> s, chars |-> cs]
PyInt(s) == [kind |-> "int", str |-> s, chars |-> <<>>]
PyObj(s) == [kind |-> "dict", str |-> s, chars |-> <<>>]

PyDict(items) == [ok |-> TRUE, kind |-> "dict", items |-> items]
PyList == [ok |-> TRUE, kind |-> "list", items |-> <<>>]
PyNumber == [ok |-> TRUE, kind |-> "int", items |-> <<>>]
PyText == [ok |-> TRUE, kind |-> "str", items |-> <<>>]
JSONDecodeError == [ok |-> FALSE, kind |-> "JSONDecodeError", items |-> <<>>]
RecursionError == [ok |-> FALSE, kind |-> "RecursionError", items |-> <<>>]

\* the text frames a client sends
T_plain == "not json"
T_empty == ""
T_image == "{\"type\":\"image\",\"data\":\"aGVsbG8=\"}"
T_image_nodata == "{\"type\":\"image\"}"
T_image_badpad == "{\"type\":\"image\",\"data\":\"aGk\"}"
T_realtime == "{\"realtime_input\":{}}"
T_object == "{\"type\":\"text\",\"data\":\"aGk=\"}"
T_list == "[1]"
T_number == "5"
T_setup == "{\"setup\":{\"voice\":\"Puck\"}}"
T_setup_string == "\"setup\""
T_setup_list == "[\"setup\"]"
\* stands for a JSON text nested deeper than the interpreter's recursion limit
T_deep == "[[[[[[[[...]]]]]]]]"

\* json.loads on those texts
JsonLoads(text) ==
    CASE text = T_image ->
            PyDict("type" :> PyStr("image", <<>>) @@
                   "data" :> PyStr("aGVsbG8=", <<"a","G","V","s","b","G","8","=">>))
      [] text = T_image_nodata -> PyDict("type" :> PyStr("image", <<>>))
      [] text = T_image_badpad ->
            PyDict("type" :> PyStr("image", <<>>) @@
                   "data" :> PyStr("aGk", <<"a","G","k">>))
      [] text = T_realtime -> PyDict("realtime_input" :> PyObj("{}"))
      [] text = T_object ->
            PyDict("type" :> PyStr("text", <<>>) @@
                   "data" :> PyStr("aGk=", <<"a","G","k","=">>))
      [] text = T_setup -> PyDict("setup" :> PyObj("{\"voice\":\"Puck\"}"))
      [] text = T_list -> PyList
      [] text = T_setup_list -> PyList
      [] text = T_setup_string -> PyText
      [] text = T_number -> PyNumber
      [] text = T_deep -> RecursionError
      [] OTHER -> JSONDecodeError

\* payload.get(key)
DictGet(payload, key) ==
    IF key \in DOMAIN payload.items THEN payload.items[key] ELSE PyNone

\* ------------------------------------------------------ base64.b64decode
B64Alphabet ==
    <<"A","B","C","D","E","F","G","H","I","J","K","L","M","N","O","P","Q","R",
      "S","T","U","V","W","X","Y","Z","a","b","c","d","e","f","g","h","i","j",
      "k","l","m","n","o","p","q","r","s","t","u","v","w","x","y","z","0","1",
      "2","3","4","5","6","7","8","9","+","/">>

\* the 6-bit value of a character, 64 for a character outside the alphabet
B64Index(ch) ==
    IF \E i \in 1..Len(B64Alphabet) : B64Alphabet[i] = ch
    THEN (CHOOSE i \in 1..Len(B64Alphabet) : B64Alphabet[i] = ch) - 1
    ELSE 64

\* binascii.a2b_base64, non-strict: characters outside the alphabet are
\* skipped, a completed pad sequence ends the scan, leftover bits are an error
RECURSIVE B64Scan(_, _, _, _, _, _)
B64Scan(cs, i, quad_pos, leftchar, pads, out) ==
    IF i > Len(cs)
    THEN [ok |-> quad_pos = 0, bytes |-> out]
    ELSE IF cs[i] = "="
    THEN IF quad_pos >= 2 /\ quad_pos + pads + 1 >= 4
         THEN [ok |-> TRUE, bytes |-> out]
         ELSE B64Scan(cs, i + 1, quad_pos, leftchar,
                      IF quad_pos >= 2 THEN pads + 1 ELSE pads, out)
    ELSE LET v == B64Index(cs[i]) IN
         IF v >= 64
         THEN B64Scan(cs, i + 1, quad_pos, leftchar, pads, out)
         ELSE CASE quad_pos = 0 -> B64Scan(cs, i + 1, 1, v, 0, out)
                [] quad_pos = 1 ->
                     B64Scan(cs, i + 1, 2, v % 16, 0,
                             Append(out, leftchar * 4 + v \div 16))
                [] quad_pos = 2 ->
                     B64Scan(cs, i + 1, 3, v % 4, 0,
                             Append(out, leftchar * 16 + v \div 4))
                [] OTHER ->
                     B64Scan(cs, i + 1, 0, 0, 0, Append(out, leftchar * 64 + v))

\* base64.b64decode(payload["data"]): KeyError without the key, TypeError
\* for a value that is no str, binascii.Error for a bad encoding
B64Decode(payload) ==
    LET data == DictGet(payload, "data") IN
    IF "data" \notin DOMAIN payload.items \/ data.kind # "str"
    THEN [ok |-> FALSE, bytes |-> <<>>]
    ELSE B64Scan(data.chars, 1, 0, 0, 0, <<>>)

\* ------------------------------------------------------------- messages
\* what websocket.receive() returns
TextMsg(t) ==
    [type |-> "websocket.receive", has_bytes |-> FALSE, bytes |-> <<>>,
     has_text |-> TRUE, text |-> t]
BytesMsg(b) ==
    [type |-> "websocket.receive", has_bytes |-> TRUE, bytes |-> b,
     has_text |-> FALSE, text |-> ""]
DisconnectMsg ==
    [type |-> "websocket.disconnect", has_bytes |-> FALSE, bytes |-> <<>>,
     has_text |-> FALSE, text |-> ""]
\* no message read yet
NoMessage ==
    [type |-> "none", has_bytes |-> FALSE, bytes |-> <<>>,
     has_text |-> FALSE, text |-> ""]

BinaryPayloads == {<<1, 2>>, <<7>>, <<>>}
TextPayloads ==
    {T_plain, T_empty, T_image, T_image_nodata, T_image_badpad, T_realtime,
     T_object, T_list, T_deep}
SetupTexts ==
    {T_setup, T_plain, T_list, T_number, T_object, T_setup_string,
     T_setup_list, T_deep}

ClientFrames ==
    {BytesMsg(b) : b \in BinaryPayloads} \cup {TextMsg(t) : t \in TextPayloads}
SetupFrames == {TextMsg(t) : t \in SetupTexts} \cup {BytesMsg(<<1, 2>>)}

\* -------------------------------------------------- the upstream's events
\* what gemini_client.start_session(...) yields, as far as run_session looks
\* at it: None, an empty dict, two event dicts, and a value json.dumps
\* cannot encode
EvNone == [kind |-> "none", items |-> <<>>]
EvEmpty == [kind |-> "dict", items |-> <<>>]
EvInterrupted == [kind |-> "dict", items |-> << <<"type", "interrupted">> >>]
EvTurnComplete ==
    [kind |-> "dict", items |-> << <<"type", "turn_complete">> >>]
EvBytes == [kind |-> "bytes", items |-> << <<"data", "1">> >>]

Events == {EvNone, EvEmpty, EvInterrupted, EvTurnComplete, EvBytes}

\* run_session without the "if event:" test
TruthyAlways(event) == TRUE

\* "if event:" -- None and an empty container are falsy
Truthy(event) == event.kind # "none" /\ Len(event.items) > 0

\* json.dumps(data, separators=(",", ":")) of websocket.send_json; a value
\* that is no JSON type raises TypeError
JsonDumps(event) ==
    CASE event = EvInterrupted ->
            [ok |-> TRUE, text |-> "{\"type\":\"interrupted\"}"]
      [] event = EvTurnComplete ->
            [ok |-> TRUE, text |-> "{\"type\":\"turn_complete\"}"]
      [] event = EvEmpty -> [ok |-> TRUE, text |-> "{}"]
      [] event = EvNone -> [ok |-> TRUE, text |-> "null"]
      [] OTHER -> [ok |-> FALSE, text |-> ""]

\* ------------------------------------------------------- the token store
\* cleanup_tokens(): the store without the entries older than the expiry
cleanup_tokens(tokens, current_time) ==
    LET expired == {t \in DOMAIN tokens :
                      current_time - tokens[t] > TOKEN_EXPIRY_SECONDS}
    IN  [t \in DOMAIN tokens \ expired |-> tokens[t]]

\* a validation that leaves the token in the store
DelTokenKeeps(tokens, t) == tokens

\* del valid_tokens[token]
DelToken(tokens, t) == [k \in DOMAIN tokens \ {t} |-> tokens[k]]

\* POST /api/auth: sweep, then record a fresh uuid with the current time
authenticate ==
    LET session_token == Uuid4(issued + 1) IN
    /\ valid_tokens' = (session_token :> now) @@ cleanup_tokens(valid_tokens, now)
    /\ issued' = issued + 1
    /\ UNCHANGED <<now, conn>>

\* ----------------------------------------------------------- the socket
\* websocket.close(code, reason) raises RuntimeError once a close was sent;
\* towards a client that is gone the server's send may fail (oserr) or not
CloseRaises(r, oserr) ==
    r.application_state = "DISCONNECTED" \/ (r.client_gone /\ oserr)

\* the socket after websocket.close(frame): the frame reaches the client only
\* from a connected application to a client that is still there
CloseSocket(r, frame) ==
    [r EXCEPT !.close_attempts = Append(@, frame),
              !.close_delivered =
                  IF r.application_state = "CONNECTED" /\ ~r.client_gone
                  THEN Append(@, frame) ELSE @,
              !.application_state = "DISCONNECTED"]

\* ------------------------------------------------------- the connection
InitConn ==
    [pc |-> "IDLE", token |-> NoToken, client_gone |-> FALSE,
     client_state |-> "CONNECTING", application_state |-> "CONNECTING",
     consumed |-> FALSE, consumed_age |-> 0, setup_config |-> "None",
     audio_input_queue |-> <<>>, video_input_queue |-> <<>>,
     text_input_queue |-> <<>>, received |-> <<>>,
     receive_task |-> "none", cancel_called |-> FALSE,
     driver |-> "none", exit |-> "none", started |-> 0,
     authenticated_at |-> 0, setup_message |-> NoMessage,
     upstream_opened |-> 0, yielded |-> <<>>, sent_json |-> <<>>,
     close_attempts |-> <<>>, close_delivered |-> <<>>,
     propagated |-> FALSE]

Init ==
    /\ now = 0
    /\ valid_tokens = <<>>
    /\ issued = 0
    /\ conn = [c \in Conns |-> InitConn]

\* a client opens /ws?token=...
Connect(c, tok) ==
    /\ conn[c].pc = "IDLE"
    /\ \A d \in Conns : d < c => conn[d].pc # "IDLE"
    /\ conn' = [conn EXCEPT ![c].pc = "CONNECTING", ![c].token = tok]
    /\ UNCHANGED <<now, valid_tokens, issued>>

\* await websocket.accept()
Accept(c) ==
    /\ conn[c].pc = "CONNECTING"
    /\ conn' = [conn EXCEPT ![c].pc = "AUTHENTICATING",
                            ![c].client_state = "CONNECTED",
                            ![c].application_state = "CONNECTED"]
    /\ UNCHANGED <<now, valid_tokens, issued>>

\* a handler that ends the session as soon as the client goes away
ClientDisconnectEndsSession(c) ==
    /\ conn[c].pc \in {"AUTHENTICATING", "AWAITING_SETUP", "ACTIVE", "TIMEOUT",
                       "TEARDOWN"}
    /\ ~conn[c].client_gone
    /\ conn[c].application_state = "CONNECTED"
    /\ conn' = [conn EXCEPT ![c] =
                  IF conn[c].pc = "ACTIVE"
                  THEN [@ EXCEPT !.client_gone = TRUE, !.pc = "TEARDOWN",
                                 !.driver = "cancelled", !.exit = "complete"]
                  ELSE [@ EXCEPT !.client_gone = TRUE]]
    /\ UNCHANGED <<now, valid_tokens, issued>>

\* the client goes away
ClientDisconnect(c) ==
    /\ conn[c].pc \in {"AUTHENTICATING", "AWAITING_SETUP", "ACTIVE", "TIMEOUT",
                       "TEARDOWN"}
    /\ ~conn[c].client_gone
    /\ conn[c].application_state = "CONNECTED"
    /\ conn' = [conn EXCEPT ![c].client_gone = TRUE]
    /\ UNCHANGED <<now, valid_tokens, issued>>

\* ValidateToken without "del valid_tokens[token]"
ValidateTokenKeepsToken(c, oserr) ==
    LET r == conn[c]
        token == r.token
    IN
    /\ r.pc = "AUTHENTICATING"
    /\ IF TokenFalsy(token) \/ token.value \notin DOMAIN valid_tokens
       THEN conn' = [conn EXCEPT ![c] =
                       [CloseSocket(r, UnauthorizedClose) EXCEPT
                           !.pc = "CLOSED", !.exit = "unauthorized",
                           !.propagated = CloseRaises(r, oserr)]]
       ELSE conn' = [conn EXCEPT ![c].pc = "AWAITING_SETUP",
                                 ![c].consumed = TRUE,
                                 ![c].authenticated_at = now,
                                 ![c].consumed_age =
                                     now - valid_tokens[token.value]]
    /\ UNCHANGED <<now, valid_tokens, issued>>

\* ValidateToken without the "return" after the unauthorized close
ValidateTokenNoReturn(c, oserr) ==
    LET r == conn[c]
        token == r.token
    IN
    /\ r.pc = "AUTHENTICATING"
    /\ IF TokenFalsy(token) \/ token.value \notin DOMAIN valid_tokens
       THEN /\ conn' = [conn EXCEPT ![c] =
                          [CloseSocket(r, UnauthorizedClose) EXCEPT
                              !.pc = "AWAITING_SETUP", !.exit = "unauthorized",
                              !.propagated = CloseRaises(r, oserr)]]
            /\ UNCHANGED valid_tokens
       ELSE /\ valid_tokens' = DelToken(valid_tokens, token.value)
            /\ conn' = [conn EXCEPT ![c].pc = "AWAITING_SETUP",
                                    ![c].consumed = TRUE,
                                    ![c].authenticated_at = now,
                                    ![c].consumed_age =
                                        now - valid_tokens[token.value]]
    /\ UNCHANGED <<now, issued>>

\* "Validate Token" and "Remove token (one-time use)": one event-loop turn
ValidateToken(c, oserr) ==
    LET r == conn[c]
        token == r.token
    IN
    /\ r.pc = "AUTHENTICATING"
    /\ IF TokenFalsy(token) \/ token.value \notin DOMAIN valid_tokens
       THEN /\ conn' = [conn EXCEPT ![c] =
                          [CloseSocket(r, UnauthorizedClose) EXCEPT
                              !.pc = "CLOSED", !.exit = "unauthorized",
                              !.propagated = CloseRaises(r, oserr)]]
            /\ UNCHANGED valid_tokens
       ELSE /\ valid_tokens' = DelToken(valid_tokens, token.value)
            /\ conn' = [conn EXCEPT ![c].pc = "AWAITING_SETUP",
                                    ![c].consumed = TRUE,
                                    ![c].authenticated_at = now,
                                    ![c].consumed_age =
                                        now - valid_tokens[token.value]]
    /\ UNCHANGED <<now, issued>>

\* the setup phase: receive_text() and json.loads in one try; a disconnect
\* (WebSocketDisconnect), a binary frame (no "text"), undecodable text and a
\* value that "in" or [] cannot be applied to all end in the except branch;
\* a list or a str takes "in" and then fails on ["setup"] or has no "setup"
SetupConfig(message) ==
    IF message.type = "websocket.disconnect" \/ ~message.has_text
    THEN "None"
    ELSE LET initial_data == JsonLoads(message.text) IN
         IF initial_data.ok /\ initial_data.kind = "dict"
            /\ "setup" \in DOMAIN initial_data.items
         THEN initial_data.items["setup"].str
         ELSE "None"

\* ReceiveSetup without the try / except around the setup message: a
\* message that is no JSON text ends the handler
ReceiveSetupFatal(c, message) ==
    LET r == conn[c] IN
    /\ r.pc = "AWAITING_SETUP"
    /\ (message = DisconnectMsg) <=> r.client_gone
    /\ now + SESSION_TIME_LIMIT <= MaxTime
    /\ Cardinality({d \in Conns : conn[d].driver # "none"}) < MaxSessions
    /\ conn' = [conn EXCEPT ![c] =
                  IF message.has_text /\ JsonLoads(message.text).ok
                  THEN [r EXCEPT !.pc = "ACTIVE",
                                 !.setup_message = message,
                                 !.setup_config = SetupConfig(message),
                                 !.upstream_opened = @ + 1,
                                 !.receive_task = "running",
                                 !.driver = "running",
                                 !.started = now]
                  ELSE [r EXCEPT !.pc = "CLOSED",
                                 !.setup_message = message,
                                 !.propagated = TRUE]]
    /\ UNCHANGED <<now, valid_tokens, issued>>

\* ReceiveSetup that also classifies the first message like a later frame
ReceiveSetupMultiplexes(c, message) ==
    LET r == conn[c] IN
    /\ r.pc = "AWAITING_SETUP"
    /\ (message = DisconnectMsg) <=> r.client_gone
    /\ now + SESSION_TIME_LIMIT <= MaxTime
    /\ Cardinality({d \in Conns : conn[d].driver # "none"}) < MaxSessions
    /\ conn' = [conn EXCEPT ![c] =
                  [r EXCEPT !.pc = "ACTIVE",
                            !.setup_message = message,
                            !.setup_config = SetupConfig(message),
                            !.upstream_opened = @ + 1,
                            !.client_state =
                                IF message = DisconnectMsg
                                THEN "DISCONNECTED" ELSE @,
                            !.audio_input_queue =
                                IF message.has_bytes
                                THEN Append(@, message.bytes) ELSE @,
                            !.text_input_queue =
                                IF message.has_text
                                THEN Append(@, message.text) ELSE @,
                            !.receive_task = "running",
                            !.driver = "running",
                            !.started = now]]
    /\ UNCHANGED <<now, valid_tokens, issued>>

\* "Wait for initial setup message", then the queues, the GeminiLive client,
\* create_task(receive_from_client()) and wait_for(run_session(), ...)
ReceiveSetup(c, message) ==
    LET r == conn[c] IN
    /\ r.pc = "AWAITING_SETUP"
    /\ (message = DisconnectMsg) <=> r.client_gone
    /\ now + SESSION_TIME_LIMIT <= MaxTime
    /\ Cardinality({d \in Conns : conn[d].driver # "none"}) < MaxSessions
    /\ conn' = [conn EXCEPT ![c] =
                  [r EXCEPT !.pc = "ACTIVE",
                            !.setup_message = message,
                            !.setup_config = SetupConfig(message),
                            !.upstream_opened = @ + 1,
                            !.client_state =
                                IF message = DisconnectMsg
                                THEN "DISCONNECTED" ELSE @,
                            !.receive_task = "running",
                            !.driver = "running",
                            !.started = now]]
    /\ UNCHANGED <<now, valid_tokens, issued>>

\* message = await websocket.receive(): the message is consumed, and a
\* disconnect message leaves the socket's client side DISCONNECTED
ReadMessage(r, message) ==
    [r EXCEPT !.received = Append(@, message),
              !.client_state = IF message.type = "websocket.disconnect"
                               THEN "DISCONNECTED" ELSE @]

\* payload is a dict and payload.get("type") == "image"
IsImagePayload(payload) ==
    /\ payload.ok
    /\ payload.kind = "dict"
    /\ DictGet(payload, "type").kind = "str"
    /\ DictGet(payload, "type").str = "image"

\* the if / elif of the loop body: binary frames to the audio queue, image
\* directives decoded to the video queue, every other non-empty text to the
\* text queue; only JSONDecodeError is caught inside the loop, any other
\* exception of json.loads or b64decode ends the task in "except Exception"
Enqueue(r, message) ==
    IF message.has_bytes /\ Len(message.bytes) > 0
    THEN [r EXCEPT !.audio_input_queue = Append(@, message.bytes)]
    ELSE IF message.has_text /\ message.text # ""
    THEN LET text == message.text
             payload == JsonLoads(text)
         IN
         IF payload.kind = "RecursionError"
         THEN [r EXCEPT !.receive_task = "finished"]
         ELSE IF IsImagePayload(payload)
         THEN LET image_data == B64Decode(payload) IN
              IF image_data.ok
              THEN [r EXCEPT !.video_input_queue = Append(@, image_data.bytes)]
              ELSE [r EXCEPT !.receive_task = "finished"]
         ELSE IF payload.ok /\ payload.kind = "dict"
                 /\ "realtime_input" \in DOMAIN payload.items
         THEN [r EXCEPT !.text_input_queue = Append(@, text)]
         ELSE [r EXCEPT !.text_input_queue = Append(@, text)]
    ELSE r

\* receive_from_client with the audio frame put at the head of its queue
receive_from_client_lifo(r, message) ==
    LET n == Enqueue(ReadMessage(r, message), message) IN
    IF n.audio_input_queue # r.audio_input_queue
    THEN [n EXCEPT !.audio_input_queue = <<message.bytes>> \o r.audio_input_queue]
    ELSE n

\* receive_from_client without the "continue" after the image put
receive_from_client_nocontinue(r, message) ==
    LET n == Enqueue(ReadMessage(r, message), message) IN
    IF n.video_input_queue # r.video_input_queue
    THEN [n EXCEPT !.text_input_queue = Append(@, message.text)]
    ELSE n

\* one turn of the while loop of receive_from_client()
receive_from_client(r, message) == Enqueue(ReadMessage(r, message), message)

\* the receive task runs one turn: websocket.receive() gives the next frame,
\* the disconnect message once the peer is gone or the socket closed, and
\* raises RuntimeError after a disconnect message was received
ReceiveFromClient(c, message) ==
    LET r == conn[c] IN
    /\ r.receive_task = "running"
    /\ IF r.client_state = "DISCONNECTED"
       THEN /\ message = DisconnectMsg
            /\ conn' = [conn EXCEPT ![c].receive_task = "finished"]
       ELSE /\ (message = DisconnectMsg)
                  <=> (r.client_gone \/ r.application_state = "DISCONNECTED")
            /\ conn' = [conn EXCEPT ![c] = receive_from_client(r, message)]
    /\ UNCHANGED <<now, valid_tokens, issued>>

\* ------------------------------------------------------- the governor
\* a wait_for armed with twice the limit
DeadlineDoubled(r) == r.started + 2 * SESSION_TIME_LIMIT

\* wait_for(run_session(), timeout=SESSION_TIME_LIMIT), armed at ACTIVE entry
Deadline(r) == r.started + SESSION_TIME_LIMIT

\* a timer armed when the token is accepted
TimerDueSinceAuthentication(r) ==
    /\ r.pc \in {"AWAITING_SETUP", "ACTIVE"}
    /\ now >= r.authenticated_at + SESSION_TIME_LIMIT

\* the timeout of wait_for is due: it exists only while run_session runs
TimerDue(r) == r.pc = "ACTIVE" /\ now >= Deadline(r)

\* one turn of "async for event in ...: if event: await send_json(event)":
\* a falsy event is skipped; json.dumps may raise TypeError and the write to
\* a client that is gone may raise (oserr) -- either leaves run_session and
\* is logged by "except Exception"
DriverEvent(c, event, oserr) ==
    LET r == conn[c]
        n == [r EXCEPT !.yielded = Append(@, event)]
    IN
    /\ r.pc = "ACTIVE"
    /\ r.driver = "running"
    /\ conn' = [conn EXCEPT ![c] =
                  IF ~Truthy(event)
                  THEN n
                  ELSE IF ~JsonDumps(event).ok \/ (r.client_gone /\ oserr)
                  THEN [n EXCEPT !.pc = "TEARDOWN", !.driver = "faulted",
                                 !.exit = "fault"]
                  ELSE [n EXCEPT !.sent_json =
                                     Append(@, JsonDumps(event).text)]]
    /\ UNCHANGED <<now, valid_tokens, issued>>

\* run_session() returns: the collaborator's event sequence ended
DriverComplete(c) ==
    /\ conn[c].pc = "ACTIVE"
    /\ conn' = [conn EXCEPT ![c].pc = "TEARDOWN", ![c].driver = "completed",
                            ![c].exit = "complete"]
    /\ UNCHANGED <<now, valid_tokens, issued>>

\* DriverFault without "except Exception" and "finally": the fault leaves
\* the handler at once
DriverFaultEscapes(c) ==
    /\ conn[c].pc = "ACTIVE"
    /\ conn' = [conn EXCEPT ![c].pc = "CLOSED", ![c].driver = "faulted",
                            ![c].exit = "fault", ![c].propagated = TRUE]
    /\ UNCHANGED <<now, valid_tokens, issued>>

\* DriverFault with a handler that opens the upstream session again
DriverFaultRetries(c) ==
    /\ conn[c].pc = "ACTIVE"
    /\ conn' = [conn EXCEPT ![c].upstream_opened = IF @ < 2 THEN @ + 1 ELSE @]
    /\ UNCHANGED <<now, valid_tokens, issued>>

\* run_session() raises: "except Exception" logs it
DriverFault(c) ==
    /\ conn[c].pc = "ACTIVE"
    /\ conn' = [conn EXCEPT ![c].pc = "TEARDOWN", ![c].driver = "faulted",
                            ![c].exit = "fault"]
    /\ UNCHANGED <<now, valid_tokens, issued>>

\* run_session() raises asyncio.TimeoutError itself (a timeout inside the
\* collaborator): "except asyncio.TimeoutError" takes it for the deadline
DriverTimeoutError(c) ==
    /\ conn[c].pc = "ACTIVE"
    /\ conn' = [conn EXCEPT ![c].pc = "TIMEOUT", ![c].driver = "faulted",
                            ![c].exit = "fault"]
    /\ UNCHANGED <<now, valid_tokens, issued>>

\* the deadline elapses: wait_for cancels run_session, raises TimeoutError
Timeout(c) ==
    /\ TimerDue(conn[c])
    /\ conn' = [conn EXCEPT ![c].pc = "TIMEOUT", ![c].driver = "cancelled",
                            ![c].exit = "timeout"]
    /\ UNCHANGED <<now, valid_tokens, issued>>

\* try: close(...) except RuntimeError / except Exception: what gets past
TimeoutCloseGuard(raised) == FALSE

\* "except asyncio.TimeoutError": close with the time-limit reason
TimeoutClose(c, oserr) ==
    LET r == conn[c] IN
    /\ r.pc = "TIMEOUT"
    /\ conn' = [conn EXCEPT ![c] =
                  [CloseSocket(r, TimeLimitClose) EXCEPT
                      !.pc = "TEARDOWN",
                      !.propagated = TimeoutCloseGuard(CloseRaises(r, oserr))]]
    /\ UNCHANGED <<now, valid_tokens, issued>>

\* receive_task.cancel(): a running task is cancelled, a finished one is
\* left as it is and nothing is raised
CancelTask(task) == IF task = "running" THEN "cancelled" ELSE task

\* the teardown close without its try / except
TeardownCloseUnguarded(raised) == raised

\* try: await websocket.close() except: pass -- what gets past the handler
TeardownCloseGuard(raised) == FALSE

\* "finally": cancel the receive task and close the socket
Teardown(c, oserr) ==
    LET r == conn[c] IN
    /\ r.pc = "TEARDOWN"
    /\ conn' = [conn EXCEPT ![c] =
                  [CloseSocket(r, DefaultClose) EXCEPT
                      !.pc = "CLOSED",
                      !.receive_task = CancelTask(@),
                      !.cancel_called = TRUE,
                      !.propagated =
                          @ \/ TeardownCloseGuard(CloseRaises(r, oserr))]]
    /\ UNCHANGED <<now, valid_tokens, issued>>

\* ------------------------------------------------------------- the clock
\* time passes, up to the next deadline of a running wait_for; a due timer
\* fires before the clock moves on
Tick ==
    LET deadlines == {Deadline(conn[c]) : c \in {d \in Conns : conn[d].pc = "ACTIVE"}}
        target == Min({now + TickStep} \cup deadlines)
    IN
    /\ \A c \in Conns : ~TimerDue(conn[c])
    /\ target <= MaxTime
    /\ now' = target
    /\ UNCHANGED <<valid_tokens, issued, conn>>

\* POST /api/auth
Issue ==
    /\ issued < MaxTokens
    /\ authenticate

\* the frames of the specifications that are not about the multiplexer
CoreFrames == {BytesMsg(<<1, 2>>), TextMsg(T_plain), TextMsg(T_image)}

\* the first messages of the specifications that are not about the setup
CoreSetups == {TextMsg(T_setup), TextMsg(T_plain)}

Handler(c, setups, frames, reads) ==
    \/ \E tok \in TokenParams(issued) : Connect(c, tok)
    \/ Accept(c)
    \/ ClientDisconnect(c)
    \/ \E oserr \in BOOLEAN : ValidateToken(c, oserr)
    \/ \E m \in setups \cup {DisconnectMsg} : ReceiveSetup(c, m)
    \/ \E m \in frames :
          /\ Len(conn[c].received) < reads
          /\ ReceiveFromClient(c, m)
    \/ ReceiveFromClient(c, DisconnectMsg)
    \/ DriverComplete(c)
    \/ DriverFault(c)
    \/ DriverTimeoutError(c)
    \/ Timeout(c)
    \/ \E oserr \in BOOLEAN : TimeoutClose(c, oserr)
    \/ \E oserr \in BOOLEAN : Teardown(c, oserr)

Next ==
    \/ Issue
    \/ Tick
    \/ \E c \in Conns : Handler(c, CoreSetups, CoreFrames, MaxFrames)

Spec == Init /\ [][Next]_vars

\* one connection with every kind of frame
SessionFrames == 2  \* frames the receive task reads in SessionSpec

IssueOnce ==
    /\ issued < 1
    /\ authenticate

NextSession ==
    \/ IssueOnce
    \/ Tick
    \/ Handler(1, CoreSetups, ClientFrames, SessionFrames)

SessionSpec == Init /\ [][NextSession]_vars

\* the event loop keeps running the handler: time passes, a due timer fires,
\* the handler's "except" and "finally" blocks run to their end, and the
\* receive task is resumed when the socket has a disconnect to report
MaxEvents == 3      \* events the upstream yields in RelaySpec
GovernedEvents == 1 \* events the upstream yields in FairSessionSpec

\* the upstream collaborator yields its next event to run_session
Relay(c, events, yields) ==
    \E event \in events, oserr \in BOOLEAN :
        /\ Len(conn[c].yielded) < yields
        /\ DriverEvent(c, event, oserr)

NextGoverned ==
    \/ IssueOnce
    \/ Tick
    \/ Handler(1, CoreSetups, CoreFrames, MaxFrames)
    \/ Relay(1, {EvTurnComplete}, GovernedEvents)

FairSessionSpec ==
    /\ Init
    /\ [][NextGoverned]_vars
    /\ WF_vars(Tick)
    /\ WF_vars(Timeout(1))
    /\ WF_vars(\E oserr \in BOOLEAN : TimeoutClose(1, oserr))
    /\ WF_vars(\E oserr \in BOOLEAN : Teardown(1, oserr))
    /\ WF_vars(ReceiveFromClient(1, DisconnectMsg))

\* one connection with every kind of first message
NextSetup ==
    \/ IssueOnce
    \/ Tick
    \/ Handler(1, SetupFrames, CoreFrames, MaxFrames)

SetupSpec == Init /\ [][NextSetup]_vars

\* one connection with every kind of upstream event
NextRelay ==
    \/ IssueOnce
    \/ Tick
    \/ Handler(1, {TextMsg(T_setup)}, {BytesMsg(<<1, 2>>)}, MaxFrames)
    \/ Relay(1, Events, MaxEvents)

RelaySpec == Init /\ [][NextRelay]_vars

\* ------------------------------------------------------------- claims
\* the connections that passed authentication with token t
AdmittedWith(t) ==
    {c \in Conns : conn[c].consumed /\ conn[c].token.given
                   /\ conn[c].token.value = t}

\* C1: each issued token admits at most one connection, whatever the
\* interleaving of issue requests and connection attempts
C1_TokenAdmitsAtMostOne ==
    \A t \in 1..issued : Cardinality(AdmittedWith(t)) <= 1

\* two connections presented the same issued token: one was admitted, the
\* other refused
C1_Witness ==
    \E c, d \in Conns :
        /\ c # d
        /\ conn[c].token = conn[d].token
        /\ conn[c].consumed
        /\ conn[d].exit = "unauthorized"

\* C2 (as claimed): a connection is admitted only with a token that is at
\* most TOKEN_EXPIRY_SECONDS old
C2_ExpiredTokenRefused ==
    \A c \in Conns :
        conn[c].consumed => conn[c].consumed_age <= TOKEN_EXPIRY_SECONDS

\* the token a connection presents is refused: missing, empty or not stored
Refused(c) ==
    \/ TokenFalsy(conn[c].token)
    \/ conn[c].token.value \notin DOMAIN valid_tokens

\* C8: a connection with no token or a token not in the store is closed with
\* the unauthorized code straight into CLOSED, the attempt leaves the store
\* as it was, and the connection never consumes a token, reads a setup
\* message, gets a receive task or opens an upstream session
C8_UnauthorizedFrame ==
    /\ [][\A c \in Conns :
            (conn[c].pc = "AUTHENTICATING" /\ Refused(c)
             /\ conn'[c].pc # "AUTHENTICATING")
            => /\ valid_tokens' = valid_tokens
               /\ conn'[c].pc = "CLOSED"
               /\ conn'[c].exit = "unauthorized"
               /\ conn'[c].close_attempts = <<UnauthorizedClose>>]_vars
    /\ [](\A c \in Conns :
            conn[c].exit = "unauthorized"
            => /\ conn[c].pc = "CLOSED"
               /\ ~conn[c].consumed
               /\ conn[c].setup_config = "None"
               /\ conn[c].received = <<>>
               /\ conn[c].receive_task = "none"
               /\ conn[c].driver = "none")

\* a refused connection while a token is stored
C8_Witness ==
    \E c \in Conns :
        /\ conn[c].exit = "unauthorized"
        /\ conn[c].pc = "CLOSED"
        /\ DOMAIN valid_tokens # {}

\* the payloads of a sequence of messages
RECURSIVE BytesOf(_)
BytesOf(ms) ==
    IF ms = <<>> THEN <<>> ELSE <<Head(ms).bytes>> \o BytesOf(Tail(ms))

RECURSIVE TextsOf(_)
TextsOf(ms) ==
    IF ms = <<>> THEN <<>> ELSE <<Head(ms).text>> \o TextsOf(Tail(ms))

IsBinaryFrame(m) == m.type = "websocket.receive" /\ m.has_bytes
IsTextFrame(m) == m.type = "websocket.receive" /\ m.has_text
IsImageDirective(m) == IsTextFrame(m) /\ IsImagePayload(JsonLoads(m.text))
IsDecodableImage(m) == IsImageDirective(m) /\ B64Decode(JsonLoads(m.text)).ok
IsRealtimeInput(m) ==
    /\ IsTextFrame(m)
    /\ ~IsImageDirective(m)
    /\ JsonLoads(m.text).ok
    /\ JsonLoads(m.text).kind = "dict"
    /\ "realtime_input" \in DOMAIN JsonLoads(m.text).items

RECURSIVE DecodedOf(_)
DecodedOf(ms) ==
    IF ms = <<>> THEN <<>>
    ELSE <<B64Decode(JsonLoads(Head(ms).text)).bytes>> \o DecodedOf(Tail(ms))

\* C3 (as claimed): the audio queue holds every binary frame read, the empty
\* ones too, in the order read, and nothing else holds a binary frame
C3_EveryBinaryFrameOnAudio ==
    \A c \in Conns :
        conn[c].audio_input_queue =
            BytesOf(SelectSeq(conn[c].received, IsBinaryFrame))

\* C3 (amended): the audio queue holds exactly the non-empty binary frames
\* read, verbatim and in the order read, and the image and text queues hold
\* no more items than text frames were read
C3_NonEmptyBinaryFramesOnAudio ==
    \A c \in Conns :
        LET NonEmptyBinary(m) == IsBinaryFrame(m) /\ m.bytes # <<>>
        IN
        /\ conn[c].audio_input_queue =
               BytesOf(SelectSeq(conn[c].received, NonEmptyBinary))
        /\ Len(conn[c].video_input_queue) + Len(conn[c].text_input_queue)
               <= Len(SelectSeq(conn[c].received, IsTextFrame))

\* two different binary frames were read, and an empty one
C3_Witness ==
    \E c \in Conns :
        /\ Len(conn[c].audio_input_queue) = 2
        /\ conn[c].audio_input_queue[1] # conn[c].audio_input_queue[2]

\* C4 (as claimed): every image directive read is one item of the image
\* queue and every other text frame read is one item, its raw text, of the
\* text queue
C4_EveryTextFrameClassified ==
    \A c \in Conns :
        LET OtherText(m) == IsTextFrame(m) /\ ~IsImageDirective(m)
        IN
        /\ Len(conn[c].video_input_queue) =
               Len(SelectSeq(conn[c].received, IsImageDirective))
        /\ conn[c].text_input_queue =
               TextsOf(SelectSeq(conn[c].received, OtherText))

\* C4 (amended): the image queue holds the decoded data of exactly the image
\* directives read whose data decodes, the text queue the raw text of exactly
\* the non-empty text frames read that are no image directive and that
\* json.loads decodes or rejects as malformed; an image directive is never on
\* the text queue; an empty text frame, an image directive without decodable
\* data and a text on which json.loads fails otherwise are on no queue
C4_TextFrameClassification ==
    \A c \in Conns :
        LET OtherText(m) ==
                /\ IsTextFrame(m)
                /\ ~IsImageDirective(m)
                /\ m.text # ""
                /\ JsonLoads(m.text).kind # "RecursionError"
        IN
        /\ conn[c].video_input_queue =
               DecodedOf(SelectSeq(conn[c].received, IsDecodableImage))
        /\ conn[c].text_input_queue =
               TextsOf(SelectSeq(conn[c].received, OtherText))

\* an image directive was decoded onto the image queue and a malformed text
\* went to the text queue
C4_Witness ==
    \E c \in Conns :
        /\ conn[c].video_input_queue = << <<104, 101, 108, 108, 111>> >>
        /\ conn[c].text_input_queue = <<T_plain>>

\* C5 (as claimed): a frame carrying realtime_input is put on no queue, so
\* the text queue never holds one
C5_RealtimeInputNotEnqueued ==
    \A c \in Conns :
        \A i \in 1..Len(conn[c].text_input_queue) :
            ~IsRealtimeInput(TextMsg(conn[c].text_input_queue[i]))

\* C6: every connection that enters ACTIVE reaches CLOSED with the receive
\* task cancelled and a socket close attempted, whichever way it leaves ACTIVE
C6_TeardownAlwaysExecutes ==
    \A c \in Conns :
        (conn[c].pc = "ACTIVE")
        ~> (/\ conn[c].pc = "CLOSED"
            /\ conn[c].cancel_called
            /\ conn[c].receive_task \in {"cancelled", "finished"}
            /\ conn[c].close_attempts # <<>>
            /\ conn[c].close_attempts[Len(conn[c].close_attempts)] = DefaultClose)

\* a session ended by a fault of the driver was torn down
C6_Witness ==
    \E c \in Conns :
        /\ conn[c].exit = "fault"
        /\ conn[c].pc = "CLOSED"
        /\ conn[c].cancel_called
        /\ conn[c].receive_task = "cancelled"

\* C7: a session is never ACTIVE later than SESSION_TIME_LIMIT after it
\* became ACTIVE, and the session the deadline ended is closed first with the
\* time-limit reason
C7_ForceClosedByDeadline ==
    \A c \in Conns :
        /\ conn[c].pc = "ACTIVE" => now - conn[c].started <= SESSION_TIME_LIMIT
        /\ (conn[c].exit = "timeout" /\ conn[c].pc \in {"TEARDOWN", "CLOSED"})
           => conn[c].close_attempts[1] = TimeLimitClose

\* a session whose driver never completed was closed by the deadline
C7_Witness ==
    \E c \in Conns :
        /\ conn[c].exit = "timeout"
        /\ conn[c].pc = "CLOSED"
        /\ conn[c].driver = "cancelled"
        /\ conn[c].close_delivered = <<TimeLimitClose>>
        /\ now = conn[c].started + SESSION_TIME_LIMIT

\* the close frame an exit path calls for
CloseFrameOf(exit) ==
    CASE exit = "unauthorized" -> UnauthorizedClose
      [] exit = "timeout" -> TimeLimitClose
      [] OTHER -> DefaultClose

\* C9 (as claimed): the first close attempted on a connection is the one
\* its exit path calls for (4003 Unauthorized exactly after a refused token,
\* 1000 time limit exactly after the deadline elapsed, default after the
\* driver completed or faulted), every closed connection had one, and of two
\* closes only the first reaches the client
C9_CloseFrameByExitPath ==
    \A c \in Conns :
        /\ conn[c].close_attempts # <<>>
           => conn[c].close_attempts[1] = CloseFrameOf(conn[c].exit)
        /\ conn[c].pc = "CLOSED" => conn[c].close_attempts # <<>>
        /\ Len(conn[c].close_delivered) <= 1
        /\ conn[c].close_delivered # <<>>
           => conn[c].close_delivered[1] = conn[c].close_attempts[1]
        /\ (conn[c].pc = "CLOSED" /\ ~conn[c].client_gone)
           => conn[c].close_delivered = <<CloseFrameOf(conn[c].exit)>>

\* C10: the teardown never lets an error out of the handler and leaves the
\* connection CLOSED, also when the receive task had finished and the socket
\* was closed before
C10_TeardownNeverRaises ==
    \A c \in Conns :
        conn[c].cancel_called
        => /\ conn[c].pc = "CLOSED"
           /\ ~conn[c].propagated
           /\ conn[c].receive_task \in {"cancelled", "finished"}

\* teardown after the receive task had finished and the timeout close had
\* closed the socket
C10_Witness ==
    \E c \in Conns :
        /\ conn[c].cancel_called
        /\ conn[c].receive_task = "finished"
        /\ conn[c].close_attempts = <<TimeLimitClose, DefaultClose>>
        /\ conn[c].client_gone

\* the three input queues of a connection
Queues(r) == <<r.audio_input_queue, r.video_input_queue, r.text_input_queue>>

\* C11 (as claimed): once a session has left ACTIVE (deadline elapsed, driver
\* faulted or completed) no step puts an item on its audio, image or text
\* queue
C11_NoEnqueueAfterActive ==
    [][\A c \in Conns :
          conn[c].pc \in {"TIMEOUT", "TEARDOWN", "CLOSED"}
          => Queues(conn'[c]) = Queues(conn[c])]_vars

\* the socket of a connection is open in both directions
SocketOpen(r) ==
    /\ ~r.client_gone
    /\ r.client_state = "CONNECTED"
    /\ r.application_state = "CONNECTED"

\* C12 (as claimed): while the session is ACTIVE and the socket is open the
\* receive task is still reading, whatever frames it has read so far
C12_LoopSurvivesEveryFrame ==
    \A c \in Conns :
        (conn[c].pc = "ACTIVE" /\ SocketOpen(conn[c]))
        => conn[c].receive_task = "running"

\* the first message is a JSON object with a "setup" key
HasSetupKey(m) ==
    /\ IsTextFrame(m)
    /\ JsonLoads(m.text).ok
    /\ JsonLoads(m.text).kind = "dict"
    /\ "setup" \in DOMAIN JsonLoads(m.text).items

\* C13: whatever the first message after authentication is (a disconnect
\* too), the step that consumes it takes the connection to ACTIVE with the
\* upstream session opened once and nothing raised; the configuration passed
\* upstream is the value of the "setup" key of a first message that is a
\* JSON object with that key, and None for every other first message
C13_SetupFailureNeverFatal ==
    /\ [][\A c \in Conns :
            (conn[c].pc = "AWAITING_SETUP" /\ conn'[c].pc # "AWAITING_SETUP")
            => /\ conn'[c].pc = "ACTIVE"
               /\ conn'[c].setup_message # NoMessage
               /\ conn'[c].driver = "running"
               /\ conn'[c].upstream_opened = 1
               /\ ~conn'[c].propagated]_vars
    /\ [](\A c \in Conns :
            conn[c].upstream_opened > 0
            => conn[c].setup_config =
                   IF HasSetupKey(conn[c].setup_message)
                   THEN JsonLoads(conn[c].setup_message.text).items["setup"].str
                   ELSE "None")

\* a session opened after a binary first message, with no configuration
C13_Witness ==
    \E c \in Conns :
        /\ conn[c].setup_message = BytesMsg(<<1, 2>>)
        /\ conn[c].pc = "ACTIVE"
        /\ conn[c].driver = "running"
        /\ conn[c].upstream_opened = 1
        /\ conn[c].setup_config = "None"

\* C14: a fault of the upstream driver during ACTIVE (raised by the
\* collaborator's event stream or by the write of an event to the socket)
\* takes the session from ACTIVE to the handler's except and finally blocks
\* and on to CLOSED, nothing is raised out of the handler, and the upstream
\* session of a connection is opened at most once
C14_UpstreamFaultEndsSession ==
    /\ [][\A c \in Conns :
            (conn[c].driver # "faulted" /\ conn'[c].driver = "faulted")
            => /\ conn[c].pc = "ACTIVE"
               /\ conn'[c].pc \in {"TIMEOUT", "TEARDOWN"}]_vars
    /\ [](\A c \in Conns :
            /\ conn[c].upstream_opened <= 1
            /\ conn[c].driver = "faulted"
               => /\ conn[c].pc \in {"TIMEOUT", "TEARDOWN", "CLOSED"}
                  /\ conn[c].exit = "fault"
                  /\ ~conn[c].propagated)
    /\ \A c \in Conns :
          (conn[c].driver = "faulted")
          ~> (/\ conn[c].pc = "CLOSED"
              /\ ~conn[c].propagated
              /\ conn[c].upstream_opened = 1)

\* the write of an event to a client that was gone ended the session
C14_Witness ==
    \E c \in Conns :
        /\ conn[c].driver = "faulted"
        /\ conn[c].pc = "CLOSED"
        /\ conn[c].client_gone
        /\ conn[c].yielded = <<EvTurnComplete>>
        /\ conn[c].sent_json = <<>>
        /\ conn[c].upstream_opened = 1

\* the JSON texts of a sequence of events
RECURSIVE DumpsOf(_)
DumpsOf(es) ==
    IF es = <<>> THEN <<>>
    ELSE <<JsonDumps(Head(es)).text>> \o DumpsOf(Tail(es))

IsPrefix(s, t) == Len(s) <= Len(t) /\ s = SubSeq(t, 1, Len(s))

NonEmptyEvent(e) == e # EvNone /\ e # EvEmpty

\* C15: the JSON messages sent to the client are at every moment a prefix
\* of the non-empty, non-null events the upstream has yielded, in the order
\* yielded, and no null or empty event is among them
C15_EventsForwardedInOrder ==
    \A c \in Conns :
        /\ IsPrefix(conn[c].sent_json,
                    DumpsOf(SelectSeq(conn[c].yielded, NonEmptyEvent)))
        /\ \A i \in 1..Len(conn[c].sent_json) :
              conn[c].sent_json[i] \notin {"null", "{}", ""}

\* two events were forwarded in order around a null event that was not
C15_Witness ==
    \E c \in Conns :
        /\ conn[c].yielded = <<EvInterrupted, EvNone, EvTurnComplete>>
        /\ conn[c].sent_json = <<JsonDumps(EvInterrupted).text,
                                 JsonDumps(EvTurnComplete).text>>

\* no stored token is older than the expiry
NoExpiredToken(tokens, current_time) ==
    \A t \in DOMAIN tokens : current_time - tokens[t] <= TOKEN_EXPIRY_SECONDS

\* C16 (as claimed): right after every issuance and right after every
\* validation of a token at /ws, the store holds no token issued more than
\* TOKEN_EXPIRY_SECONDS earlier
C16_PurgedOnIssueAndValidation ==
    [][(\/ issued' # issued
        \/ \E c \in Conns : /\ conn[c].pc = "AUTHENTICATING"
                             /\ conn'[c].pc # "AUTHENTICATING")
       => NoExpiredToken(valid_tokens', now')]_vars

\* the connection got past the token check: it waits for or has read a
\* setup message, has a receive task, queued input or an upstream session
PastAuthentication(r) ==
    \/ r.pc \in {"AWAITING_SETUP", "ACTIVE", "TIMEOUT", "TEARDOWN"}
    \/ r.setup_message # NoMessage
    \/ r.receive_task # "none"
    \/ r.driver # "none"
    \/ r.upstream_opened > 0
    \/ Queues(r) # <<<<>>, <<>>, <<>>>>

\* C17: a connection that has a receive task, queues or an upstream session
\* has consumed an issued token, which is no longer in the store, and no
\* more connections got past authentication than tokens were issued
C17_AuthenticationGatesEverything ==
    /\ \A c \in Conns :
          PastAuthentication(conn[c])
          => /\ conn[c].consumed
             /\ ~TokenFalsy(conn[c].token)
             /\ conn[c].token.value \in 1..issued
             /\ conn[c].token.value \notin DOMAIN valid_tokens
    /\ Cardinality({c \in Conns : PastAuthentication(conn[c])}) <= issued

\* two tokens, two admitted connections, one of them with a running
\* session that has queued a frame
C17_Witness ==
    /\ issued = 2
    /\ \A c \in Conns : conn[c].consumed
    /\ \E c \in Conns :
          /\ conn[c].receive_task = "running"
          /\ conn[c].upstream_opened = 1
          /\ conn[c].audio_input_queue # <<>>

\* C18: the step in which the client goes away during ACTIVE leaves the
\* session ACTIVE with the driver running; the receive task then stops; a
\* session leaves ACTIVE only in a step in which the driver completes or
\* faults or in which the deadline, already elapsed, cancels it
C18_DisconnectAloneDoesNotEnd ==
    /\ [][\A c \in Conns :
            (conn[c].pc = "ACTIVE" /\ ~conn[c].client_gone
             /\ conn'[c].client_gone)
            => (conn'[c].pc = "ACTIVE" /\ conn'[c].driver = "running")]_vars
    /\ [][\A c \in Conns :
            (conn[c].pc = "ACTIVE" /\ conn'[c].pc # "ACTIVE")
            => \/ conn'[c].driver \in {"completed", "faulted"}
               \/ /\ conn'[c].driver = "cancelled"
                  /\ now >= conn[c].started + SESSION_TIME_LIMIT]_vars
    /\ [](\A c \in Conns :
            conn[c].pc = "ACTIVE" => conn[c].driver = "running")
    /\ \A c \in Conns :
          (conn[c].pc = "ACTIVE" /\ conn[c].client_gone)
          ~> (conn[c].receive_task \in {"finished", "cancelled"})

\* the client has gone and the receive task has ended, and the session is
\* still ACTIVE with its driver running some time later
C18_Witness ==
    \E c \in Conns :
        /\ conn[c].pc = "ACTIVE"
        /\ conn[c].client_gone
        /\ conn[c].receive_task = "finished"
        /\ conn[c].driver = "running"
        /\ now > conn[c].started
        /\ now < conn[c].started + SESSION_TIME_LIMIT

\* how many items the three queues of a connection hold
Queued(r) ==
    Len(r.audio_input_queue) + Len(r.video_input_queue)
        + Len(r.text_input_queue)

\* C19: the step that consumes the first message after authentication puts
\* nothing on a queue, whatever the message is; the queues stay empty until
\* the receive task has read a frame, and they never hold more items than
\* frames were read after the first message
C19_SetupMessageNotMultiplexed ==
    /\ [][\A c \in Conns :
            conn[c].pc = "AWAITING_SETUP" => Queued(conn'[c]) = 0]_vars
    /\ [](\A c \in Conns :
            /\ conn[c].received = <<>> => Queued(conn[c]) = 0
            /\ Queued(conn[c]) <= Len(conn[c].received))

\* a binary first message and the same frame once more: the queue holds
\* one item
C19_Witness ==
    \E c \in Conns :
        /\ conn[c].setup_message = BytesMsg(<<1, 2>>)
        /\ conn[c].received = <<BytesMsg(<<1, 2>>)>>
        /\ conn[c].audio_input_queue = << <<1, 2>> >>
        /\ Queued(conn[c]) = 1

\* C20: the deadline is counted from the step that enters ACTIVE and fires
\* only in ACTIVE, so nothing is closed for the time limit before a session
\* was opened; a connection in AWAITING_SETUP has consumed its token, has no
\* session and no close, and leaves that state only by the step that
\* consumes a first message or a disconnect, however much time passes
C20_DeadlineCoversOnlyActive ==
    /\ [][\A c \in Conns :
            /\ (conn[c].pc = "AWAITING_SETUP" /\ conn'[c].pc = "ACTIVE")
               => conn'[c].started = now
            /\ (conn[c].pc # "TIMEOUT" /\ conn'[c].pc = "TIMEOUT")
               => /\ conn[c].pc = "ACTIVE"
                  /\ conn'[c].exit = "timeout"
                     => now >= conn[c].started + SESSION_TIME_LIMIT
            /\ (conn[c].pc = "AWAITING_SETUP"
                /\ conn'[c].pc # "AWAITING_SETUP")
               => conn'[c].setup_message # NoMessage]_vars
    /\ [](\A c \in Conns :
            /\ conn[c].pc \in {"AUTHENTICATING", "AWAITING_SETUP"}
               => /\ conn[c].close_attempts = <<>>
                  /\ conn[c].exit = "none"
                  /\ conn[c].driver = "none"
            /\ conn[c].pc = "AWAITING_SETUP"
               => /\ conn[c].consumed
                  /\ conn[c].token.value \notin DOMAIN valid_tokens
            /\ (\E i \in 1..Len(conn[c].close_attempts) :
                   conn[c].close_attempts[i] = TimeLimitClose)
               => /\ conn[c].exit \in {"timeout", "fault"}
                  /\ conn[c].upstream_opened = 1)

\* an authenticated connection still waits for its first message longer
\* than the session time limit after its token was consumed
C20_Witness ==
    \E c \in Conns :
        /\ conn[c].pc = "AWAITING_SETUP"
        /\ conn[c].consumed
        /\ now - conn[c].authenticated_at > SESSION_TIME_LIMIT
        /\ conn[c].close_attempts = <<>>

====
